---- MODULE Spec2Model ----
(***************************************************************************)
(* Model of src/server.js: the in-memory request stores, the three stage   *)
(* handlers (submit + poll) and the Telegram webhook dispatcher.           *)
(*                                                                         *)
(* JavaScript values are encoded as strings: "null", "true", "false",      *)
(* "undefined", and "proto" for a value inherited from Object.prototype    *)
(* (a function, e.g. obj["constructor"]).  A field that is absent from a   *)
(* JSON response is "-".                                                   *)
(***************************************************************************)
EXTENDS Naturals, Sequences, FiniteSets

\* ---------------------------------------------------------------- bounds
MaxReq == 1      \* number of ids uuidv4 can hand out in one run
MaxHooks == 2    \* number of callback queries Telegram delivers in one run

UuidPool == <<"u1", "u2", "u3", "u4">>
TokenPool == <<"q1", "q2", "q3", "q4">>

UUIDs == {UuidPool[i] : i \in 1..MaxReq}
Tokens == {TokenPool[i] : i \in 1..MaxHooks}

\* keys that are not UUIDs: an id no submission issues, the key a payload
\* without ':' yields (requestId === undefined), and a key every plain object
\* inherits from Object.prototype
ProtoKeys == {"constructor"}
ForeignKeys == {"bogus", "undefined"} \cup ProtoKeys
Keys == UUIDs \cup ForeignKeys

\* ---------------------------------------------------------------- inputs
Names == {"Alice"}
Phones == {"555"}
Secrets == {"hunter2"}
BotIds == {"bot1", "bot2", "botX"}
Actions == {"pass_ok", "pass_bad", "otp_ok", "otp_bad",
            "pin_ok", "pin_bad", "pin_block", "noop"}
Stages == {"password", "otp", "pin"}

VARIABLES passwordRequests, otpRequests, pinRequests, blockedRequests,
          requestMeta, sent, acks, hooks, last, stageOf, lastAct, blockedIds,
          applied

stores == <<passwordRequests, otpRequests, pinRequests, blockedRequests,
            requestMeta>>
vars == <<passwordRequests, otpRequests, pinRequests, blockedRequests,
          requestMeta, sent, acks, hooks, last, stageOf, lastAct, blockedIds,
          applied>>
\* what the handlers do not read: the stage each issued id belongs to, the
\* action most recently dispatched on each id, the ids pin_block was
\* dispatched on, and per id and stage the value of the most recent
\* create (null) or decide (true / false) in the order they were applied
history == <<stageOf, lastAct, blockedIds, applied>>

\* ---------------------------------------------------------------- registry
NoBot == [botId |-> "undefined", token |-> "undefined", chatId |-> "undefined"]

bots == << [botId |-> "bot1", token |-> "T1", chatId |-> "C1"],
           [botId |-> "bot2", token |-> "T2", chatId |-> "C2"] >>

\* getBot that falls back to the first bot
getBotOrFirst(botId) ==
  IF \E i \in 1..Len(bots) : bots[i].botId = botId
  THEN bots[CHOOSE i \in 1..Len(bots) :
              /\ bots[i].botId = botId
              /\ \A j \in 1..(i-1) : bots[j].botId # botId]
  ELSE bots[1]

getBot(botId) ==
  IF \E i \in 1..Len(bots) : bots[i].botId = botId
  THEN bots[CHOOSE i \in 1..Len(bots) :
              /\ bots[i].botId = botId
              /\ \A j \in 1..(i-1) : bots[j].botId # botId]
  ELSE NoBot

\* ---------------------------------------------------------------- JS objects
EmptyObj == [k \in {} |-> "null"]

\* obj[k] = v
Put(obj, k, v) == [x \in (DOMAIN obj) \cup {k} |-> IF x = k THEN v ELSE obj[x]]

\* obj[k] on a plain object: own property, else inherited, else undefined
Get(obj, k) ==
  IF k \in DOMAIN obj THEN obj[k]
  ELSE IF k \in ProtoKeys THEN "proto"
  ELSE "undefined"

Truthy(v) == v \in {"true", "proto"}

\* v ?? null
OrNull(v) == IF v \in {"null", "undefined"} THEN "null" ELSE v

\* JSON.stringify drops a property whose value is a function
JsonField(v) == IF v = "proto" THEN "-" ELSE v

\* uuidv4(): an identifier that was never handed out before.  Which of the
\* unused identifiers it is does not matter to any handler, so the model
\* takes them in pool order; the set is empty once the pool is used up.
uuidv4 ==
  {UuidPool[i] : i \in {j \in 1..MaxReq : j = Cardinality(DOMAIN requestMeta) + 1}}

\* requestMeta[requestId] as the dispatcher sees it (line 211): the stored
\* record, or Object.prototype's member for an inherited key
MetaFound(requestId) == requestId \in DOMAIN requestMeta \/ requestId \in ProtoKeys
MetaName(requestId) ==
  IF requestId \in DOMAIN requestMeta THEN requestMeta[requestId].name ELSE "Object"
MetaPhone(requestId) ==
  IF requestId \in DOMAIN requestMeta THEN requestMeta[requestId].phone ELSE "undefined"

\* ---------------------------------------------------------------- responses
\* last is the HTTP response most recently written (status and, for a
\* submission, the requestId of its body); a step that writes none clears it
Response(status, requestId) == [status |-> status, requestId |-> requestId]

NoResponse == Response("-", "-")

\* the JSON body of a poll
PollBody(approved, blocked) == [approved |-> approved, blocked |-> blocked]

\* ---------------------------------------------------------------- channel
\* the body of one sendMessage call (sendTelegram, lines 52-64)
sendTelegram(bot, kind, name, phone, detail, ref, buttons) ==
  [token |-> bot.token, chat_id |-> bot.chatId, kind |-> kind, name |-> name,
   phone |-> phone, detail |-> detail, ref |-> ref, buttons |-> buttons]

\* the body of one answerCallbackQuery call (answerCallback, lines 66-73)
answerCallback(bot, id) == [token |-> bot.token, callback_query_id |-> id]

\* callback_data of the buttons each stage attaches
Buttons(stage, requestId) ==
  IF stage = "password" THEN {<<"pass_ok", requestId>>, <<"pass_bad", requestId>>}
  ELSE IF stage = "otp" THEN {<<"otp_ok", requestId>>, <<"otp_bad", requestId>>}
  ELSE {<<"pin_ok", requestId>>, <<"pin_bad", requestId>>, <<"pin_block", requestId>>}

\* ---------------------------------------------------------------- Init
\* one invocation of the webhook handler per callback query id: where it
\* stands (idle, send = awaiting line 225, ack = awaiting line 235, done) and
\* the locals it still uses
NoHook == [botId |-> "-", requestId |-> "-", pc |-> "idle"]

\* an outbound call that has been started and has not settled yet; call is
\* the request id or callback query id of the handler that started it
Pending(call, body) == [call |-> call, body |-> body]

Init ==
  /\ passwordRequests = EmptyObj
  /\ otpRequests = EmptyObj
  /\ pinRequests = EmptyObj
  /\ blockedRequests = EmptyObj
  /\ requestMeta = [k \in {} |-> [name |-> "-", phone |-> "-", botId |-> "-"]]
  /\ sent = {}
  /\ acks = {}
  /\ hooks = [t \in Tokens |-> NoHook]
  /\ last = NoResponse
  /\ stageOf = [k \in {} |-> "-"]
  /\ lastAct = [k \in Keys |-> "none"]
  /\ blockedIds = {}
  /\ applied = [k \in Keys |-> [st \in Stages |-> "absent"]]

\* ---------------------------------------------------------------- submit
\* lines 101, 136, 171: the decision a new request starts with
InitialDecisionFalse == "false"

InitialDecision == "null"

\* the part the three submit handlers share: lines 96-118 / 131-153 / 166-189
SubmitInvalid(botId) ==
  /\ getBot(botId) = NoBot
  /\ last' = Response("400", "-")
  /\ UNCHANGED <<stores, sent, acks, hooks, history>>

\* a submit handler that awaits sendTelegram before it answers
SubmitValidAwaits(stage, name, phone, secret, botId, requestId) ==
  /\ getBot(botId) # NoBot
  /\ requestMeta' = Put(requestMeta, requestId,
                        [name |-> name, phone |-> phone, botId |-> botId])
  /\ sent' = sent \cup {Pending(requestId,
                  sendTelegram(getBot(botId), stage, name, phone, secret,
                               requestId, Buttons(stage, requestId)))}
  /\ last' = NoResponse
  /\ stageOf' = Put(stageOf, requestId, stage)
  /\ applied' = [applied EXCEPT ![requestId][stage] = "null"]
  /\ UNCHANGED <<acks, hooks, lastAct, blockedIds>>

SubmitValid(stage, name, phone, secret, botId, requestId) ==
  /\ getBot(botId) # NoBot
  /\ requestMeta' = Put(requestMeta, requestId,
                        [name |-> name, phone |-> phone, botId |-> botId])
  /\ sent' = sent \cup {Pending(requestId,
                  sendTelegram(getBot(botId), stage, name, phone, secret,
                               requestId, Buttons(stage, requestId)))}
  /\ last' = Response("200", requestId)
  /\ stageOf' = Put(stageOf, requestId, stage)
  /\ applied' = [applied EXCEPT ![requestId][stage] = "null"]
  /\ UNCHANGED <<acks, hooks, lastAct, blockedIds>>

SubmitPassword(name, phone, password, botId) ==
  \/ SubmitInvalid(botId)
  \/ \E requestId \in uuidv4 :
       /\ SubmitValid("password", name, phone, password, botId, requestId)
       /\ passwordRequests' = Put(passwordRequests, requestId, InitialDecision)
       /\ UNCHANGED <<otpRequests, pinRequests, blockedRequests>>

SubmitOtp(name, phone, otp, botId) ==
  \/ SubmitInvalid(botId)
  \/ \E requestId \in uuidv4 :
       /\ SubmitValid("otp", name, phone, otp, botId, requestId)
       /\ otpRequests' = Put(otpRequests, requestId, InitialDecision)
       /\ UNCHANGED <<passwordRequests, pinRequests, blockedRequests>>

\* a pin submission that notifies the operator and leaves the decision
\* entry to be created later
SubmitPinUnstored(name, phone, pin, botId) ==
  \/ SubmitInvalid(botId)
  \/ \E requestId \in uuidv4 :
       /\ SubmitValid("pin", name, phone, pin, botId, requestId)
       /\ UNCHANGED <<passwordRequests, otpRequests, pinRequests, blockedRequests>>

SubmitPin(name, phone, pin, botId) ==
  \/ SubmitInvalid(botId)
  \/ \E requestId \in uuidv4 :
       /\ SubmitValid("pin", name, phone, pin, botId, requestId)
       /\ pinRequests' = Put(pinRequests, requestId, InitialDecision)
       /\ UNCHANGED <<passwordRequests, otpRequests, blockedRequests>>

\* ---------------------------------------------------------------- poll
CheckPasswordBody(id) ==
  PollBody(JsonField(OrNull(Get(passwordRequests, id))), "-")

CheckOtpBody(id) ==
  PollBody(JsonField(OrNull(Get(otpRequests, id))), "-")

\* check-pin that looks at the decision before the blocked flag
CheckPinBodyDecisionFirst(id) ==
  IF OrNull(Get(pinRequests, id)) # "null"
  THEN PollBody(JsonField(OrNull(Get(pinRequests, id))), "-")
  ELSE IF Truthy(Get(blockedRequests, id)) THEN PollBody("-", "true")
  ELSE PollBody("null", "-")

CheckPinBody(id) ==
  IF Truthy(Get(blockedRequests, id))
  THEN PollBody("-", "true")
  ELSE PollBody(JsonField(OrNull(Get(pinRequests, id))), "-")

CheckPassword(id) ==
  /\ last' = Response("200", "-")
  /\ UNCHANGED <<stores, sent, acks, hooks, history>>

CheckOtp(id) ==
  /\ last' = Response("200", "-")
  /\ UNCHANGED <<stores, sent, acks, hooks, history>>

\* a poll that hands a decision out once and then forgets it
CheckPinConsumes(id) ==
  /\ last' = Response("200", "-")
  /\ pinRequests' = IF id \in DOMAIN pinRequests
                    THEN Put(pinRequests, id, "null")
                    ELSE pinRequests
  /\ UNCHANGED <<passwordRequests, otpRequests, blockedRequests, requestMeta,
                 sent, acks, hooks, history>>

CheckPin(id) ==
  /\ last' = Response("200", "-")
  /\ UNCHANGED <<stores, sent, acks, hooks, history>>

\* ---------------------------------------------------------------- webhook
\* callback_data is modelled as its ':'-separated segments, so that
\* cb.data.split(':') is the sequence itself; [action, requestId] takes the
\* first two segments and a missing second one is undefined
SplitAction(data) == data[1]
SplitRequestId(data) == IF Len(data) >= 2 THEN data[2] ELSE "undefined"

\* payloads Telegram can deliver: any action on a request that was issued
\* (its own buttons and those of the other stages), and texts that name an id
\* no submission issued or that carry no ':' at all
ForeignDatas ==
  {<<"pass_ok">>, <<"noop">>, <<"pin_bad", "bogus">>,
   <<"otp_ok", "constructor">>, <<"pin_block", "constructor">>,
   <<"noop", "constructor">>}

Datas == {<<a, k>> : a \in Actions, k \in DOMAIN requestMeta} \cup ForeignDatas

\* callback query ids are unique: Telegram delivers the next unused one
NextToken ==
  IF \E i \in 1..MaxHooks : hooks[TokenPool[i]].pc = "idle"
  THEN TokenPool[CHOOSE i \in 1..MaxHooks :
                   /\ hooks[TokenPool[i]].pc = "idle"
                   /\ \A j \in 1..(i-1) : hooks[TokenPool[j]].pc # "idle"]
  ELSE "-"

\* req.body.callback_query: absent, or the next callback query
NoCallback == [id |-> "-", data |-> <<"-">>]
Callbacks == {NoCallback} \cup {[id |-> NextToken, data |-> d] : d \in Datas}

\* lines 214-222: the effect of one action on each store
\* a password decision guarded so that only the first one is kept
passwordAfterFirstWins(action, requestId) ==
  IF /\ action \in {"pass_ok", "pass_bad"}
     /\ requestId \in DOMAIN passwordRequests
     /\ passwordRequests[requestId] # "null"
  THEN passwordRequests
  ELSE IF action = "pass_ok" THEN Put(passwordRequests, requestId, "true")
  ELSE IF action = "pass_bad" THEN Put(passwordRequests, requestId, "false")
  ELSE passwordRequests

passwordAfter(action, requestId) ==
  IF action = "pass_ok" THEN Put(passwordRequests, requestId, "true")
  ELSE IF action = "pass_bad" THEN Put(passwordRequests, requestId, "false")
  ELSE passwordRequests

\* the otp lines copied from the password lines with one store left unrenamed
otpAfterCopied(action, requestId) ==
  IF action = "otp_ok" THEN Put(otpRequests, requestId, "true")
  ELSE otpRequests

otpAfter(action, requestId) ==
  IF action = "otp_ok" THEN Put(otpRequests, requestId, "true")
  ELSE IF action = "otp_bad" THEN Put(otpRequests, requestId, "false")
  ELSE otpRequests

\* a rejection that puts the request back to pending so it can be retried
pinAfterRetry(action, requestId) ==
  IF action = "pin_ok" THEN Put(pinRequests, requestId, "true")
  ELSE IF action = "pin_bad" THEN Put(pinRequests, requestId, "null")
  ELSE pinRequests

pinAfter(action, requestId) ==
  IF action = "pin_ok" THEN Put(pinRequests, requestId, "true")
  ELSE IF action = "pin_bad" THEN Put(pinRequests, requestId, "false")
  ELSE pinRequests

\* a block flag that an approval lifts again
blockedAfterUnblock(action, requestId) ==
  IF action = "pin_block" THEN Put(blockedRequests, requestId, "true")
  ELSE IF action = "pin_ok" THEN Put(blockedRequests, requestId, "false")
  ELSE blockedRequests

blockedAfter(action, requestId) ==
  IF action = "pin_block" THEN Put(blockedRequests, requestId, "true")
  ELSE blockedRequests

Feedback(action) ==
  IF action = "pass_ok" THEN "Password approved"
  ELSE IF action = "pass_bad" THEN "Password rejected"
  ELSE IF action = "otp_ok" THEN "OTP approved"
  ELSE IF action = "otp_bad" THEN "OTP rejected"
  ELSE IF action = "pin_ok" THEN "PIN approved"
  ELSE IF action = "pin_bad" THEN "PIN rejected"
  ELSE IF action = "pin_block" THEN "User blocked"
  ELSE ""

\* the stage an action decides and the value it gives ("-" for an action
\* that decides nothing)
DecidedStage(action) ==
  IF action \in {"pass_ok", "pass_bad"} THEN "password"
  ELSE IF action \in {"otp_ok", "otp_bad"} THEN "otp"
  ELSE IF action \in {"pin_ok", "pin_bad"} THEN "pin"
  ELSE "-"
DecidedValue(action) ==
  IF action \in {"pass_ok", "otp_ok", "pin_ok"} THEN "true"
  ELSE IF action \in {"pass_bad", "otp_bad", "pin_bad"} THEN "false"
  ELSE "-"

\* an unknown routing key answered 200
WebhookNoBotOk(botId, cb) ==
  /\ getBot(botId) = NoBot
  /\ last' = Response("200", "-")
  /\ UNCHANGED <<stores, sent, acks, hooks, history>>

\* line 205: unknown routing key
WebhookNoBot(botId, cb) ==
  /\ getBot(botId) = NoBot
  /\ last' = Response("404", "-")
  /\ UNCHANGED <<stores, sent, acks, hooks, history>>

\* line 208: an update without callback_query
WebhookNoCallback(botId, cb) ==
  /\ getBot(botId) # NoBot
  /\ cb = NoCallback
  /\ last' = Response("200", "-")
  /\ UNCHANGED <<stores, sent, acks, hooks, history>>

\* lines 210-235 up to the first await: parse, mutate, start the
\* confirmation (or, without one, the acknowledgement)
WebhookDispatch(botId, cb) ==
  LET id == cb.id
      action == SplitAction(cb.data)
      requestId == SplitRequestId(cb.data)
      meta == MetaFound(requestId)
      feedback == Feedback(action)
      bot == getBot(botId)
  IN /\ getBot(botId) # NoBot
     /\ cb # NoCallback
     /\ id \in Tokens
     /\ hooks[id].pc = "idle"
     /\ passwordRequests' = passwordAfter(action, requestId)
     /\ otpRequests' = otpAfter(action, requestId)
     /\ pinRequests' = pinAfter(action, requestId)
     /\ blockedRequests' = blockedAfter(action, requestId)
     /\ UNCHANGED <<requestMeta, stageOf>>
     /\ lastAct' = [lastAct EXCEPT ![requestId] = action]
     /\ blockedIds' = IF action = "pin_block" THEN blockedIds \cup {requestId}
                      ELSE blockedIds
     /\ applied' = IF DecidedStage(action) = "-" THEN applied
                   ELSE [applied EXCEPT ![requestId][DecidedStage(action)] =
                                          DecidedValue(action)]
     /\ last' = NoResponse
     /\ IF feedback # "" /\ meta
        THEN /\ sent' = sent \cup {Pending(id,
                         sendTelegram(bot, "action", MetaName(requestId),
                                      MetaPhone(requestId), feedback, "-", {}))}
             /\ acks' = acks
             /\ hooks' = [hooks EXCEPT ![id] =
                   [botId |-> botId, requestId |-> requestId, pc |-> "send"]]
        ELSE /\ sent' = sent
             /\ acks' = acks \cup {answerCallback(bot, id)}
             /\ hooks' = [hooks EXCEPT ![id] =
                   [botId |-> botId, requestId |-> "-", pc |-> "ack"]]

Webhook(botId, cb) ==
  \/ WebhookNoBot(botId, cb)
  \/ WebhookNoCallback(botId, cb)
  \/ WebhookDispatch(botId, cb)

\* sendTelegram without its try/catch: the handler ends where the send fails
SendSettledUncaught(id) ==
  /\ hooks[id].pc = "send"
  /\ sent' = {m \in sent : m.call # id}
  /\ acks' = acks
  /\ hooks' = [hooks EXCEPT ![id] =
        [NoHook EXCEPT !.pc = "failed", !.botId = hooks[id].botId]]
  /\ last' = NoResponse
  /\ UNCHANGED <<stores, history>>

\* line 225 resumes: the sendMessage call settled (delivered or failed, the
\* failure is caught at line 61); line 235 starts the acknowledgement
SendSettled(id) ==
  /\ hooks[id].pc = "send"
  /\ sent' = {m \in sent : m.call # id}
  /\ acks' = acks \cup {answerCallback(getBot(hooks[id].botId), id)}
  /\ hooks' = [hooks EXCEPT ![id] =
        [NoHook EXCEPT !.pc = "ack", !.botId = hooks[id].botId]]
  /\ last' = NoResponse
  /\ UNCHANGED <<stores, history>>

\* a submit handler that writes the initial null only after its send settled
NotifySettledInitAfter(requestId) ==
  /\ \E m \in sent : m.call = requestId
  /\ requestId \in DOMAIN requestMeta
  /\ sent' = {m \in sent : m.call # requestId}
  /\ passwordRequests' = IF stageOf[requestId] = "password"
                         THEN Put(passwordRequests, requestId, "null")
                         ELSE passwordRequests
  /\ otpRequests' = IF stageOf[requestId] = "otp"
                    THEN Put(otpRequests, requestId, "null")
                    ELSE otpRequests
  /\ pinRequests' = IF stageOf[requestId] = "pin"
                    THEN Put(pinRequests, requestId, "null")
                    ELSE pinRequests
  /\ last' = NoResponse
  /\ UNCHANGED <<blockedRequests, requestMeta, acks, hooks, history>>

\* the sendMessage call a submit handler started and did not await settles
\* (delivered, or failed and logged at line 62)
NotifySettled(requestId) ==
  /\ \E m \in sent : m.call = requestId
  /\ requestId \in DOMAIN requestMeta
  /\ sent' = {m \in sent : m.call # requestId}
  /\ last' = NoResponse
  /\ UNCHANGED <<stores, acks, hooks, history>>

\* line 235 resumes: answerCallbackQuery settled (failure swallowed at line
\* 72); line 236 answers 200
AckSettled(id) ==
  /\ hooks[id].pc = "ack"
  /\ hooks' = [hooks EXCEPT ![id] = [NoHook EXCEPT !.pc = "done"]]
  /\ acks' = acks \ {answerCallback(getBot(hooks[id].botId), id)}
  /\ last' = Response("200", "-")
  /\ UNCHANGED <<stores, sent, history>>

\* ---------------------------------------------------------------- Next
\* ids a client polls: the ones it was given, and ones it was never given
PollIds == (DOMAIN requestMeta) \cup ForeignKeys

Next ==
  \/ \E name \in Names, phone \in Phones, password \in Secrets, botId \in BotIds :
       SubmitPassword(name, phone, password, botId)
  \/ \E name \in Names, phone \in Phones, otp \in Secrets, botId \in BotIds :
       SubmitOtp(name, phone, otp, botId)
  \/ \E name \in Names, phone \in Phones, pin \in Secrets, botId \in BotIds :
       SubmitPin(name, phone, pin, botId)
  \/ \E id \in PollIds : CheckPassword(id)
  \/ \E id \in PollIds : CheckOtp(id)
  \/ \E id \in PollIds : CheckPin(id)
  \/ \E botId \in BotIds, cb \in Callbacks : Webhook(botId, cb)
  \/ \E requestId \in UUIDs : NotifySettled(requestId)
  \/ \E id \in Tokens : SendSettled(id)
  \/ \E id \in Tokens : AckSettled(id)

Spec == Init /\ [][Next]_vars

\* every outbound call to the channel eventually settles
FairSpec ==
  /\ Spec
  /\ \A id \in Tokens : WF_vars(SendSettled(id)) /\ WF_vars(AckSettled(id))

\* ================================================================ claims
Issued == DOMAIN requestMeta
RegisteredIds == {bots[i].botId : i \in 1..Len(bots)}
IsBlocked(id) == id \in blockedIds

\* what GET /check-S/id answers for a request of stage S
CheckBody(id) ==
  IF stageOf[id] = "password" THEN CheckPasswordBody(id)
  ELSE IF stageOf[id] = "otp" THEN CheckOtpBody(id)
  ELSE CheckPinBody(id)

OkOf(stage) == IF stage = "password" THEN "pass_ok"
               ELSE IF stage = "otp" THEN "otp_ok" ELSE "pin_ok"
BadOf(stage) == IF stage = "password" THEN "pass_bad"
                ELSE IF stage = "otp" THEN "otp_bad" ELSE "pin_bad"

\* C1 as stated: for every issued id of stage S, if S_ok:id is the last action
\* dispatched on that id the poll answers approved:true, and if S_bad:id is
\* the last one it answers approved:false (for pin_bad, unless the id was
\* blocked).
C1_AsStated ==
  \A id \in Issued :
    /\ lastAct[id] = OkOf(stageOf[id]) => CheckBody(id).approved = "true"
    /\ (lastAct[id] = BadOf(stageOf[id]) /\ ~IsBlocked(id))
         => CheckBody(id).approved = "false"

\* C1 amended: the same, with the proviso "the id was not blocked" on both
\* the S_ok and the S_bad case.
C1_DecisionPolled ==
  \A id \in Issued :
    /\ (lastAct[id] = OkOf(stageOf[id]) /\ ~IsBlocked(id))
         => CheckBody(id).approved = "true"
    /\ (lastAct[id] = BadOf(stageOf[id]) /\ ~IsBlocked(id))
         => CheckBody(id).approved = "false"

C1_Witness ==
  \E id \in Issued :
    /\ lastAct[id] \in {OkOf(stageOf[id]), BadOf(stageOf[id])}
    /\ ~IsBlocked(id)
    /\ hooks[TokenPool[2]].pc # "idle"

\* C2 as stated: a new request on which no action was dispatched polls as
\* approved:null, and a pin request additionally as blocked:false.
C2_AsStated ==
  \A id \in Issued :
    lastAct[id] = "none" =>
      /\ CheckBody(id).approved = "null"
      /\ stageOf[id] = "pin" => CheckBody(id).blocked = "false"

\* C2 amended: a new request on which no action was dispatched polls as
\* approved:null; the answer of the pin stage is {approved:null} too, it
\* carries no blocked field (blocked appears only as blocked:true).
C2_FreshIsPending ==
  \A id \in Issued :
    lastAct[id] = "none" => CheckBody(id) = PollBody("null", "-")

C2_Witness == \E id \in Issued : lastAct[id] = "none" /\ stageOf[id] = "pin"

\* C3: once pin_block:id was dispatched, GET /check-pin/id answers
\* {blocked:true}, whatever was dispatched before or after.
C3_BlockedStays ==
  \A id \in blockedIds : CheckPinBody(id) = PollBody("-", "true")

C3_Witness ==
  \E id \in blockedIds \cap Issued :
    stageOf[id] = "pin" /\ lastAct[id] \in {"pin_ok", "pin_bad"}

\* C4: a submission whose botId is not in the registry answers 400, changes no
\* store and starts no notification; and every entry of requestMeta names a
\* registered tenant.
C4_InvalidSubmit ==
  /\ [][(\E name \in Names, phone \in Phones, secret \in Secrets,
            botId \in BotIds \ RegisteredIds :
              \/ SubmitPassword(name, phone, secret, botId)
              \/ SubmitOtp(name, phone, secret, botId)
              \/ SubmitPin(name, phone, secret, botId))
          => /\ last'.status = "400"
             /\ UNCHANGED <<stores, sent, acks>>]_vars
  /\ [](\A id \in DOMAIN requestMeta : requestMeta[id].botId \in RegisteredIds)

C4_Witness == last.status = "400" /\ Issued # {}

\* C6 as stated: once a store holds true or false for an id, no step changes
\* that value.
C6_DecidedOnce ==
  [][/\ \A id \in DOMAIN passwordRequests :
          passwordRequests[id] # "null" => passwordRequests'[id] = passwordRequests[id]
     /\ \A id \in DOMAIN otpRequests :
          otpRequests[id] # "null" => otpRequests'[id] = otpRequests[id]
     /\ \A id \in DOMAIN pinRequests :
          pinRequests[id] # "null" => pinRequests'[id] = pinRequests[id]]_vars

\* C7 as stated: an action that names an id no submission issued creates no
\* entry in any store, and that id still polls as pending on every stage.
C7_UnknownIdNoOp ==
  \A id \in {"bogus", "undefined"} :
    /\ id \notin (DOMAIN passwordRequests) \cup (DOMAIN otpRequests)
                   \cup (DOMAIN pinRequests) \cup (DOMAIN blockedRequests)
    /\ CheckPasswordBody(id) = PollBody("null", "-")
    /\ CheckOtpBody(id) = PollBody("null", "-")
    /\ CheckPinBody(id) = PollBody("null", "-")

C9_UnknownTenant ==
  [][(\E botId \in BotIds \ RegisteredIds, cb \in Callbacks : Webhook(botId, cb))
       => /\ last'.status = "404"
          /\ UNCHANGED <<stores, sent, acks, hooks>>]_vars

C9_Witness == last.status = "404" /\ Issued # {}

\* C10 as stated: a confirmation that is being sent for a request with stored
\* metadata goes to the chat of the tenant recorded in that metadata.
C10_ConfirmationToSubmitter ==
  \A m \in sent :
    (m.body.kind = "action" /\ hooks[m.call].requestId \in DOMAIN requestMeta)
      => m.body.chat_id = getBot(requestMeta[hooks[m.call].requestId].botId).chatId

\* the stage store an issued id was created in
StageStore(id) ==
  IF stageOf[id] = "password" THEN passwordRequests
  ELSE IF stageOf[id] = "otp" THEN otpRequests
  ELSE pinRequests

\* C11: a submission under a registered botId answers 200 with the new id in
\* the step that starts the notification, while that sendMessage call is
\* still in flight; and when the call settles (delivered or failed) no store
\* changes, nothing is sent again and no error response is written.
C11_RespondsAtOnce ==
  [][/\ (\E name \in Names, phone \in Phones, secret \in Secrets,
            botId \in RegisteredIds :
              \/ SubmitPassword(name, phone, secret, botId)
              \/ SubmitOtp(name, phone, secret, botId)
              \/ SubmitPin(name, phone, secret, botId))
          => /\ last'.status = "200"
             /\ last'.requestId \in (DOMAIN requestMeta') \ (DOMAIN requestMeta)
             /\ \E m \in sent' \ sent : m.call = last'.requestId
     /\ (\E requestId \in UUIDs : NotifySettled(requestId))
          => /\ UNCHANGED stores
             /\ sent' \subseteq sent
             /\ last'.status \notin {"400", "500"}]_vars

C11_Witness ==
  \E id \in Issued :
    /\ ~\E m \in sent : m.call = id
    /\ id \in DOMAIN StageStore(id)

\* an own property of a store, "absent" when the key is not in it
Own(obj, k) == IF k \in DOMAIN obj THEN obj[k] ELSE "absent"

\* C12: in every state, with any number of handlers suspended at their
\* outbound calls, each store holds for each id what the creates, decisions
\* and blocks give when applied one at a time in the order they occurred; and
\* an id a submission issued never has a decision entry without its metadata.
C12_NoLostUpdate ==
  /\ \A k \in Keys :
       /\ Own(passwordRequests, k) = applied[k]["password"]
       /\ Own(otpRequests, k) = applied[k]["otp"]
       /\ Own(pinRequests, k) = applied[k]["pin"]
       /\ Own(blockedRequests, k) = IF k \in blockedIds THEN "true" ELSE "absent"
  /\ \A k \in UUIDs :
       k \in (DOMAIN passwordRequests) \cup (DOMAIN otpRequests)
               \cup (DOMAIN pinRequests)
         => k \in DOMAIN requestMeta

C12_Witness ==
  /\ hooks[TokenPool[1]].pc = "send"
  /\ hooks[TokenPool[2]].pc = "ack"
  /\ \E m \in sent : m.body.kind # "action"
  /\ \E id \in Issued : applied[id][stageOf[id]] \in {"true", "false"}

\* C13 as stated: the webhook call writes its response in the step that
\* mutates the store and starts the confirmation (or the acknowledgement),
\* without waiting for either call to settle.
C13_RespondsWithoutWaiting ==
  [][(\E botId \in RegisteredIds, cb \in Callbacks : WebhookDispatch(botId, cb))
       => last'.status = "200"]_vars

\* C14: a poll of any id, known or not, changes no store, starts no outbound
\* call and leaves every handler where it was, so each poll endpoint answers
\* after it what it answered before it.
C14_PollReadOnly ==
  [][(\E id \in Keys : CheckPassword(id) \/ CheckOtp(id) \/ CheckPin(id))
       => /\ UNCHANGED <<stores, sent, acks, hooks>>
          /\ \A id \in Keys :
               /\ CheckPasswordBody(id)' = CheckPasswordBody(id)
               /\ CheckOtpBody(id)' = CheckOtpBody(id)
               /\ CheckPinBody(id)' = CheckPinBody(id)]_vars

C14_Witness ==
  /\ last = Response("200", "-")
  /\ hooks[TokenPool[1]].pc = "send"
  /\ hooks[TokenPool[2]].pc = "idle"
  /\ \E id \in Issued : stageOf[id] = "pin" /\ applied[id]["pin"] = "true"

\* C15: there is no guard on a decision: for every issued id of stage S on
\* which only S_ok / S_bad decisions were dispatched (it was not blocked), the
\* poll reports the value of the most recently dispatched one, also when that
\* one followed an earlier decision of the other value.
C15_LastDecisionWins ==
  \A id \in Issued :
    (applied[id][stageOf[id]] \in {"true", "false"} /\ ~IsBlocked(id))
      => CheckBody(id).approved = applied[id][stageOf[id]]

\* two decisions on one id, approve then reject, both still awaiting their
\* confirmation; the poll reports the second
C15_Witness ==
  \E id \in Issued :
    /\ hooks[TokenPool[1]].requestId = id
    /\ hooks[TokenPool[2]].requestId = id
    /\ \E m1, m2 \in sent :
         /\ m1.call = TokenPool[1] /\ m1.body.detail = Feedback(OkOf(stageOf[id]))
         /\ m2.call = TokenPool[2] /\ m2.body.detail = Feedback(BadOf(stageOf[id]))
    /\ CheckBody(id).approved = "false"

\* C16: a submission inserts the decision entry and the metadata before it
\* starts the notification, so every id for which a notification with buttons
\* was started (in flight or settled) is present in its stage's store and in
\* requestMeta, the buttons name that id and that stage's actions, and the
\* dispatcher's metadata lookup for a button's id finds the stored record.
C16_StoredBeforeNotified ==
  /\ \A m \in sent : \A b \in m.body.buttons :
       /\ b[2] = m.body.ref
       /\ b[2] \in DOMAIN requestMeta
       /\ MetaFound(b[2])
       /\ b[2] \in DOMAIN StageStore(b[2])
       /\ stageOf[b[2]] = m.body.kind
       /\ b[1] \in {OkOf(m.body.kind), BadOf(m.body.kind), "pin_block"}
  /\ \A id \in DOMAIN stageOf :
       id \in DOMAIN requestMeta /\ id \in DOMAIN StageStore(id)

\* a notification with buttons still in flight while a callback made from
\* one of its buttons has found the metadata and awaits its confirmation
C16_Witness ==
  \E m \in sent : \E b \in m.body.buttons :
    /\ hooks[TokenPool[1]].requestId = b[2]
    /\ hooks[TokenPool[1]].pc = "send"
    /\ lastAct[b[2]] = b[1]

\* what one dispatched action may touch: nothing outside the own store's entry
\* for the named id
OnlyAt(before, after, requestId) ==
  \A k \in Keys \ {requestId} : Own(after, k) = Own(before, k)

\* C17: a dispatched S_ok / S_bad changes nothing but stage S's decision for
\* the named id: the other stages' stores, the blocked flags and what the
\* other stages' polls answer for every id stay as they were; pin_block
\* leaves all three decision stores unchanged; pin_ok / pin_bad leave the
\* blocked flags unchanged.
C17_StagesSeparate ==
  [][\A botId \in RegisteredIds, cb \in Callbacks :
       (hooks' # hooks /\ WebhookDispatch(botId, cb)) =>
         LET action == SplitAction(cb.data)
             requestId == SplitRequestId(cb.data)
         IN /\ DecidedStage(action) = "password" =>
                 /\ UNCHANGED <<otpRequests, pinRequests, blockedRequests>>
                 /\ OnlyAt(passwordRequests, passwordRequests', requestId)
                 /\ \A k \in Keys : /\ CheckOtpBody(k)' = CheckOtpBody(k)
                                    /\ CheckPinBody(k)' = CheckPinBody(k)
            /\ DecidedStage(action) = "otp" =>
                 /\ UNCHANGED <<passwordRequests, pinRequests, blockedRequests>>
                 /\ OnlyAt(otpRequests, otpRequests', requestId)
                 /\ \A k \in Keys : /\ CheckPasswordBody(k)' = CheckPasswordBody(k)
                                    /\ CheckPinBody(k)' = CheckPinBody(k)
            /\ DecidedStage(action) = "pin" =>
                 /\ UNCHANGED <<passwordRequests, otpRequests, blockedRequests>>
                 /\ OnlyAt(pinRequests, pinRequests', requestId)
                 /\ \A k \in Keys : /\ CheckPasswordBody(k)' = CheckPasswordBody(k)
                                    /\ CheckOtpBody(k)' = CheckOtpBody(k)
            /\ action = "pin_block" =>
                 /\ UNCHANGED <<passwordRequests, otpRequests, pinRequests>>
                 /\ OnlyAt(blockedRequests, blockedRequests', requestId)]_vars

\* a pin request that was decided and then blocked: the decision is still in
\* its store under the block
C17_Witness ==
  \E id \in Issued :
    /\ stageOf[id] = "pin"
    /\ lastAct[id] = "pin_block"
    /\ Own(blockedRequests, id) = "true"
    /\ Own(pinRequests, id) \in {"true", "false"}

\* C18: a dispatch starts a confirmation exactly when the action is one of
\* the seven recognized ones and the named id has metadata in requestMeta;
\* otherwise it starts no confirmation and only the acknowledgement; and a
\* handler's acknowledgement is never in flight while its confirmation still
\* is (mutation, then confirmation, then acknowledgement).
C18_ConfirmsIffKnown ==
  [][\A botId \in RegisteredIds, cb \in Callbacks :
       (hooks' # hooks /\ WebhookDispatch(botId, cb)) =>
         LET action == SplitAction(cb.data)
             requestId == SplitRequestId(cb.data)
             confirms == \E m \in sent' \ sent : m.call = cb.id
             acknowledges == \E a \in acks' \ acks : a.callback_query_id = cb.id
         IN /\ confirms <=> (Feedback(action) # "" /\ requestId \in DOMAIN requestMeta)
            /\ ~confirms <=> acknowledges
            /\ \A a \in acks' : \A m \in sent' : m.call # a.callback_query_id]_vars

\* C19: a callback dispatched on one tenant's webhook path changes neither
\* the decision nor the blocked flag of a request submitted under another
\* tenant, nor what a poll of that request answers.
C19_TenantIsolation ==
  [][\A botId \in RegisteredIds, cb \in Callbacks :
       (hooks' # hooks /\ WebhookDispatch(botId, cb)) =>
         \A id \in Issued :
           requestMeta[id].botId # botId =>
             /\ Own(passwordRequests', id) = Own(passwordRequests, id)
             /\ Own(otpRequests', id) = Own(otpRequests, id)
             /\ Own(pinRequests', id) = Own(pinRequests, id)
             /\ Own(blockedRequests', id) = Own(blockedRequests, id)
             /\ CheckBody(id)' = CheckBody(id)]_vars

Resolved(v) == v \in {"true", "false"}

\* C20: no step takes a decision back or removes an entry: a store value
\* that is true or false is still true or false after every step, a poll
\* that answered approved true or false never answers approved null after
\* it, and every id present in one of the five stores is present in it
\* after every step.
C20_NeverPendingAgain ==
  [][/\ \A k \in Keys :
          /\ Resolved(Own(passwordRequests, k)) => Resolved(Own(passwordRequests', k))
          /\ Resolved(Own(otpRequests, k)) => Resolved(Own(otpRequests', k))
          /\ Resolved(Own(pinRequests, k)) => Resolved(Own(pinRequests', k))
          /\ Resolved(CheckPasswordBody(k).approved)
               => CheckPasswordBody(k)'.approved # "null"
          /\ Resolved(CheckOtpBody(k).approved)
               => CheckOtpBody(k)'.approved # "null"
          /\ Resolved(CheckPinBody(k).approved)
               => CheckPinBody(k)'.approved # "null"
     /\ DOMAIN passwordRequests \subseteq DOMAIN passwordRequests'
     /\ DOMAIN otpRequests \subseteq DOMAIN otpRequests'
     /\ DOMAIN pinRequests \subseteq DOMAIN pinRequests'
     /\ DOMAIN blockedRequests \subseteq DOMAIN blockedRequests'
     /\ DOMAIN requestMeta \subseteq DOMAIN requestMeta']_vars

\* a resolved request whose first decision has been fully handled and on
\* which a further action is being dispatched
C20_Witness ==
  \E id \in Issued :
    /\ Resolved(CheckBody(id).approved)
    /\ hooks[TokenPool[1]].pc = "done"
    /\ hooks[TokenPool[2]].requestId = id
    /\ ~\E m \in sent : m.call = id

====
